---- MODULE Spec2Model ----
(***************************************************************************)
(* Model of src/main.js (ONFIX landing page): the sequential fragment      *)
(* loader, the page initializer it invokes, the navbar scroll listener,    *)
(* the lazy-image observer and the order/contact form submit handlers.     *)
(***************************************************************************)
EXTENDS Integers, Sequences, FiniteSets, TLC

VARIABLES
  containers,        \* ids of the fragment containers present in the document
  contents,          \* innerHTML of each present container
  phase,             \* position of each loadSection call
  pc,                \* position of loadAllSectionsSequentially
  issued,            \* fetches in the order they were issued
  writes,            \* container writes in the order they happened
  last,              \* the loadSection call that finished last, and how
  initCalls,         \* number of invocations of initInteractions
  ran,               \* setup routines that ran to completion
  initThrew,         \* initInteractions ended by an uncaught exception
  handlers,          \* forms carrying a submit listener
  observeLazyDefined,\* window.observeLazy is set
  formsPresent,      \* forms present in the document
  submitLog,         \* submit events: form, defaultPrevented, link opened
  navPlacement,      \* where the markup puts #topNav
  navbar,            \* the const navbar captured by the navbar listener
  scrollListener,    \* onScroll is registered on window
  scrollY,           \* window.scrollY
  scrolledEls,       \* #topNav elements carrying class 'scrolled'
  scrollSeen,        \* a scroll event was dispatched after the navbar fragment was loaded
  lazyImgs,          \* img.lazy elements present in the document
  dataSrc,           \* those of them with a data-src attribute
  observed,          \* targets of the lazy IntersectionObserver
  loadedCls,         \* images carrying class 'loaded'
  srcSwapped,        \* images whose src was set from data-src
  fields,            \* order-form field values (Null: no such field)
  opened,            \* link passed to window.open by the order handler
  sentFields         \* field values the last order submit read

loaderVars == <<containers, contents, phase, pc, issued, writes, last>>
initVars == <<initCalls, ran, initThrew, handlers, observeLazyDefined, observed>>
formVars == <<formsPresent, submitLog>>
navVars == <<navPlacement, navbar, scrollListener, scrollY, scrolledEls, scrollSeen>>
imgVars == <<lazyImgs, dataSrc, loadedCls, srcSwapped>>
orderVars == <<fields, opened, sentFields>>
vars == <<loaderVars, initVars, formVars, navVars, imgVars, orderVars>>

(* ------------------------------ bounds --------------------------------- *)
MaxMissing == 2      \* containers absent from the document
MaxImages == 2       \* lazy images
MaxSubmits == 2      \* submit events
MaxTyped == 2        \* characters typed into the order form

(* --------------------------- sections list ----------------------------- *)
sections ==
  << [id |-> "section-navbar",    path |-> "sections/navbar.html"],
     [id |-> "section-hero",      path |-> "sections/hero.html"],
     [id |-> "section-services",  path |-> "sections/services.html"],
     [id |-> "section-portfolio", path |-> "sections/portfolio.html"],
     [id |-> "section-ig",        path |-> "sections/ig.html"],
     [id |-> "section-pesan",     path |-> "sections/pesan.html"],
     [id |-> "section-cta",       path |-> "sections/cta.html"],
     [id |-> "section-footer",    path |-> "sections/footer.html"] >>

N == Len(sections)
Idx == 1..N
SectionIds == {sections[i].id : i \in Idx}

RECURSIVE SetToSeq(_)
SetToSeq(S) ==
  IF S = {} THEN <<>>
  ELSE LET m == CHOOSE x \in S : \A y \in S : x <= y
       IN <<m>> \o SetToSeq(S \ {m})

(* ----------------------------- loadSection ----------------------------- *)
Placeholder == [kind |-> "placeholder", path |-> ""]
\* the text of the resource at path, as res.text() returns it
ResourceText(path) == [kind |-> "html", path |-> path]
\* the notice of the catch block: "Failed to load ${path}"
FailureNotice(path) == [kind |-> "notice", path |-> path]

\* outcomes of one loadSection call: the response was ok and its body read
\* ("ok"), the status was not ok ("status"), fetch rejected ("neterr"),
\* res.text() rejected ("readerr")
Outcomes == {"ok", "status", "neterr", "readerr"}

ContentForNoStatusCheck(outcome, path) ==
  IF outcome \in {"ok", "status"} THEN ResourceText(path) ELSE FailureNotice(path)

\* what loadSection assigns to container.innerHTML
ContentFor(outcome, path) ==
  IF outcome = "ok" THEN ResourceText(path) ELSE FailureNotice(path)

CompletionNoCatch(outcome, exists) ==
  IF outcome = "ok" THEN "resolved" ELSE "rejected"

CompletionNoContainerGuard(outcome, exists) ==
  IF exists THEN "resolved" ELSE "rejected"

\* how the promise of loadSection settles: the try/catch swallows every
\* failure and both branches guard the container with if (container)
Completion(outcome, exists) == "resolved"

(* --------------------- loadAllSectionsSequentially --------------------- *)
CalledAtStartAll == Idx

\* loadSection calls made before the loop first suspends
CalledAtStart == {1}

\* loadSection calls made when the awaited call for entry i has finished
CalledAfter(i) == IF i < N THEN {i + 1} ELSE {}

InitAfterEvery(i) == TRUE

\* the loop is over, initInteractions is called, after the last entry
InitAfter(i) == i = N

(* --------------------------- initInteractions -------------------------- *)
\* the calls of initInteractions, in order
Routines ==
  << "setYear", "initLazyLoader", "initRevealOnScroll", "initNavScroll",
     "initHeroInteractions", "initServicesScroller", "initPortfolioLightbox",
     "initContactForm", "initOrderForm" >>

\* the function declarations of main.js
Declared ==
  { "setYear", "initLazyLoader", "initRevealOnScroll", "initHeroInteractions",
    "initServicesScroller", "initPortfolioLightbox", "initContactForm",
    "initOrderForm" }

Forms == {"orderForm", "contactForm"}

LazyScanTargetsAll(present, loaded) == present

\* document.querySelectorAll('img.lazy:not(.loaded)')
LazyScanTargets(present, loaded) == present \ loaded

\* document.querySelectorAll('img.lazy') of initLazyLoader
InitialScanTargets(present) == present

\* window.observeLazy(), behind its if (window.observeLazy) guard
CallObserveLazy(st) ==
  IF st.defined
  THEN [st EXCEPT !.observed = @ \cup LazyScanTargets(lazyImgs, loadedCls)]
  ELSE st

\* the effect of one routine on the page state st
ApplyRoutine(r, st) ==
  LET st1 ==
        CASE r = "initLazyLoader" ->
               IF st.defined THEN st
               ELSE [st EXCEPT !.observed = @ \cup InitialScanTargets(lazyImgs),
                               !.defined = TRUE]
          [] r = "initHeroInteractions" -> CallObserveLazy(st)
          [] r = "initServicesScroller" -> CallObserveLazy(st)
          [] r = "initOrderForm" ->
               [st EXCEPT !.handlers = @ \cup (Forms \cap formsPresent)]
          [] OTHER -> st
  IN [st1 EXCEPT !.ran = @ \cup {r}]

\* runs the calls from the k-th on; a call of an undeclared function throws
\* a ReferenceError, which ends initInteractions
RECURSIVE RunRoutines(_, _)
RunRoutines(k, st) ==
  IF k > Len(Routines) THEN CallObserveLazy(st)
  ELSE IF Routines[k] \notin Declared THEN [st EXCEPT !.threw = TRUE]
  ELSE RunRoutines(k + 1, ApplyRoutine(Routines[k], st))

initInteractions ==
  LET st0 == [ran |-> ran, defined |-> observeLazyDefined, observed |-> observed,
              handlers |-> handlers, threw |-> FALSE]
      st == RunRoutines(1, st0)
  IN /\ initCalls' = initCalls + 1
     /\ ran' = st.ran
     /\ observeLazyDefined' = st.defined
     /\ observed' = st.observed
     /\ handlers' = st.handlers
     /\ initThrew' = st.threw

(* ------------------------- navbar scroll listener ---------------------- *)
threshold == 50

\* document.getElementById("topNav") when DOMContentLoaded fires: no fragment
\* has been fetched yet, so only an element of index.html itself is found
TopNavAtDOMContentLoaded ==
  IF navPlacement = "static" THEN "staticNav" ELSE "null"

\* onScroll: navbar.classList.add/remove; on a null navbar the property
\* access throws a TypeError and nothing changes
onScroll(nav, y, els) ==
  IF nav = "null" THEN els
  ELSE IF y > threshold THEN els \cup {nav} ELSE els \ {nav}

NavFragmentLoaded ==
  /\ sections[1].id \in containers
  /\ contents[sections[1].id] = ResourceText(sections[1].path)

\* the #topNav element of the document, "none" when there is none
TopNavInDocument ==
  CASE navPlacement = "static" -> "staticNav"
    [] navPlacement = "fragment" /\ NavFragmentLoaded -> "fragNav"
    [] OTHER -> "none"

(* ------------------------------- actions ------------------------------- *)
\* the DOMContentLoaded event: the document listener (navbar) runs first,
\* then the window listener (loadAllSectionsSequentially) up to its first await
DOMContentLoaded ==
  /\ pc = "idle"
  /\ navbar' = TopNavAtDOMContentLoaded
  /\ scrollListener' = TRUE
  /\ scrolledEls' = onScroll(TopNavAtDOMContentLoaded, scrollY, scrolledEls)
  /\ pc' = "running"
  /\ phase' = [i \in Idx |-> IF i \in CalledAtStart THEN "fetching" ELSE phase[i]]
  /\ issued' = issued \o SetToSeq(CalledAtStart)
  /\ UNCHANGED <<containers, contents, writes, last, initVars, formVars,
                 navPlacement, scrollY, scrollSeen, imgVars, orderVars>>

\* loadSection(sections[i]) runs to its end with the given outcome, and the
\* loop of loadAllSectionsSequentially resumes
Finish(i, outcome) ==
  LET s == sections[i]
      exists == s.id \in containers
      done == Completion(outcome, exists) = "resolved"
      called == IF done THEN {j \in CalledAfter(i) : phase[j] = "todo"} ELSE {}
  IN /\ contents' = IF exists
                    THEN [contents EXCEPT ![s.id] = ContentFor(outcome, s.path)]
                    ELSE contents
     /\ writes' = IF exists THEN Append(writes, i) ELSE writes
     /\ last' = [i |-> i, outcome |-> outcome]
     /\ phase' = [j \in Idx |-> IF j = i THEN "finished"
                                ELSE IF j \in called THEN "fetching"
                                ELSE phase[j]]
     /\ issued' = issued \o SetToSeq(called)
     /\ IF ~done
        THEN pc' = "rejected" /\ UNCHANGED initVars
        ELSE IF InitAfter(i)
        THEN pc' = "done" /\ initInteractions
        ELSE pc' = pc /\ UNCHANGED initVars
     /\ UNCHANGED <<containers, formVars, navVars, imgVars, orderVars>>

\* the promise of fetch(path) settles
FetchSettled(i, res) ==
  /\ phase[i] = "fetching"
  /\ IF res = "ok"
     THEN /\ phase' = [phase EXCEPT ![i] = "reading"]
          /\ UNCHANGED <<containers, contents, pc, issued, writes, last,
                         initVars, formVars, navVars, imgVars, orderVars>>
     ELSE Finish(i, res)

\* the promise of res.text() settles
TextSettled(i, res) ==
  /\ phase[i] = "reading"
  /\ Finish(i, res)

(* ------------------------------- scrolling ----------------------------- *)
ScrollPositions == {0, 50, 51, 300}

\* a scroll event: the browser has set window.scrollY, the registered
\* onScroll listener runs
Scroll(y) ==
  /\ y # scrollY
  /\ scrollY' = y
  /\ scrolledEls' = IF scrollListener THEN onScroll(navbar, y, scrolledEls)
                    ELSE scrolledEls
  /\ scrollSeen' = NavFragmentLoaded
  /\ UNCHANGED <<loaderVars, initVars, formVars, navPlacement, navbar,
                 scrollListener, imgVars, orderVars>>

(* ------------------------------ form submit ---------------------------- *)
\* a submit event on form f: a registered listener calls e.preventDefault()
\* and window.open; with no listener the browser's default action, a
\* navigation, takes place
Submit(f) ==
  /\ f \in formsPresent
  /\ Len(submitLog) < MaxSubmits
  /\ submitLog' = Append(submitLog,
                    [form |-> f,
                     afterInit |-> initCalls > 0,
                     defaultPrevented |-> f \in handlers,
                     opened |-> f \in handlers])
  /\ UNCHANGED <<loaderVars, initVars, formsPresent, navVars, imgVars, orderVars>>

(* ------------------------------ lazy images ---------------------------- *)
Images == 1..MaxImages

\* an img.lazy element enters the document (a fragment's markup, or later
\* script); class 'loaded' is given by the observer callback alone
InsertImage(img, hasDataSrc) ==
  /\ img \in Images \ lazyImgs
  /\ lazyImgs' = lazyImgs \cup {img}
  /\ dataSrc' = IF hasDataSrc THEN dataSrc \cup {img} ELSE dataSrc
  /\ UNCHANGED <<loaderVars, initVars, formVars, navVars, loadedCls, srcSwapped,
                 orderVars>>

\* the IntersectionObserver callback with one entry for an observed image
IntersectionCallback(img, isIntersecting) ==
  /\ img \in observed
  /\ IF ~isIntersecting
     THEN UNCHANGED <<observed, loadedCls, srcSwapped>>
     ELSE /\ srcSwapped' = IF img \in dataSrc THEN srcSwapped \cup {img}
                           ELSE srcSwapped
          /\ loadedCls' = loadedCls \cup {img}
          /\ observed' = observed \ {img}
  /\ UNCHANGED <<loaderVars, initCalls, ran, initThrew, handlers,
                 observeLazyDefined, formVars, navVars, lazyImgs, dataSrc,
                 orderVars>>

\* window.observeLazy is called: by the 600 ms timer, behind its
\* if (window.observeLazy) guard, or by any script that injected images
ObserveLazy ==
  /\ observeLazyDefined
  /\ observed' = observed \cup LazyScanTargets(lazyImgs, loadedCls)
  /\ UNCHANGED <<loaderVars, initCalls, ran, initThrew, handlers,
                 observeLazyDefined, formVars, navVars, imgVars, orderVars>>

(* --------------------------- order-form handler ------------------------ *)
\* Strings are sequences of Unicode code points; FormData holds scalar-value
\* strings, so no lone surrogate reaches encodeURIComponent.
FieldNames == {"name", "service", "phone", "notes"}

\* FormData.get of a field the form does not have
Null == <<-1>>

\* data.get(field) || ''
FieldOrEmpty(data, field) == IF data[field] = Null THEN <<>> ELSE data[field]

\* "Halo OnFix, saya *"
TplHead == <<72, 97, 108, 111, 32, 79, 110, 70, 105, 120, 44, 32, 115, 97, 121,
             97, 32, 42>>
\* "* ingin memesan layanan: *"
TplService == <<42, 32, 105, 110, 103, 105, 110, 32, 109, 101, 109, 101, 115, 97,
                110, 32, 108, 97, 121, 97, 110, 97, 110, 58, 32, 42>>
\* "*.\nNoWA: "
TplPhone == <<42, 46, 10, 78, 111, 87, 65, 58, 32>>
\* "\nCatatan: "
TplNotes == <<10, 67, 97, 116, 97, 116, 97, 110, 58, 32>>
\* "https://wa.me/6281931786798"
WaBase == <<104, 116, 116, 112, 115, 58, 47, 47, 119, 97, 46, 109, 101, 47, 54,
            50, 56, 49, 57, 51, 49, 55, 56, 54, 55, 57, 56>>
\* "?text="
TextParam == <<63, 116, 101, 120, 116, 61>>

\* the template literal of the order handler
OrderTemplate(name, service, phone, notes) ==
  TplHead \o name \o TplService \o service \o TplPhone \o phone \o TplNotes \o notes

\* characters encodeURIComponent leaves alone: A-Z a-z 0-9 - _ . ! ~ * ' ( )
Unreserved ==
  (65..90) \cup (97..122) \cup (48..57) \cup {45, 95, 46, 33, 126, 42, 39, 40, 41}

Utf8(cp) ==
  IF cp < 128 THEN <<cp>>
  ELSE IF cp < 2048 THEN <<192 + (cp \div 64), 128 + (cp % 64)>>
  ELSE IF cp < 65536
  THEN <<224 + (cp \div 4096), 128 + ((cp \div 64) % 64), 128 + (cp % 64)>>
  ELSE <<240 + (cp \div 262144), 128 + ((cp \div 4096) % 64),
         128 + ((cp \div 64) % 64), 128 + (cp % 64)>>

HexDigit(n) == IF n < 10 THEN 48 + n ELSE 55 + n

\* "%XX", upper-case hexadecimal
PercentByte(b) == <<37, HexDigit(b \div 16), HexDigit(b % 16)>>

RECURSIVE PercentBytes(_)
PercentBytes(bytes) ==
  IF bytes = <<>> THEN <<>>
  ELSE PercentByte(Head(bytes)) \o PercentBytes(Tail(bytes))

EncodeCharKeepPercent(cp) ==
  IF cp \in Unreserved \/ cp = 37 THEN <<cp>> ELSE PercentBytes(Utf8(cp))

EncodeChar(cp) ==
  IF cp \in Unreserved THEN <<cp>> ELSE PercentBytes(Utf8(cp))

\* every character is replaced by EncodeChar of it; the string is split in
\* halves to keep the evaluation shallow
RECURSIVE encodeURIComponent(_)
encodeURIComponent(str) ==
  IF str = <<>> THEN <<>>
  ELSE IF Len(str) = 1 THEN EncodeChar(str[1])
  ELSE LET h == Len(str) \div 2
       IN encodeURIComponent(SubSeq(str, 1, h))
            \o encodeURIComponent(SubSeq(str, h + 1, Len(str)))

\* the argument of window.open in the order handler
OrderLink(data) ==
  WaBase \o TextParam \o
    encodeURIComponent(OrderTemplate(FieldOrEmpty(data, "name"),
                                     FieldOrEmpty(data, "service"),
                                     FieldOrEmpty(data, "phone"),
                                     FieldOrEmpty(data, "notes")))

\* the submit listener of #orderForm
OrderSubmit ==
  /\ opened' = OrderLink(fields)
  /\ sentFields' = fields
  /\ <<opened', sentFields'>> # <<opened, sentFields>>
  /\ UNCHANGED <<loaderVars, initVars, formVars, navVars, imgVars, fields>>

\* characters the user types: a % é € and a four-byte emoji
Alphabet == {97, 37, 233, 8364, 128295}

RECURSIVE TotalLen(_, _)
TotalLen(data, names) ==
  IF names = {} THEN 0
  ELSE LET f == CHOOSE x \in names : TRUE
       IN (IF data[f] = Null THEN 0 ELSE Len(data[f])) + TotalLen(data, names \ {f})

\* the user types one character into a field of the order form
TypeChar(field, c) ==
  /\ fields[field] # Null
  /\ TotalLen(fields, FieldNames) < MaxTyped
  /\ fields' = [fields EXCEPT ![field] = Append(@, c)]
  /\ UNCHANGED <<loaderVars, initVars, formVars, navVars, imgVars, opened, sentFields>>

\* name="Dina", service="AC Cleaning", phone="0812xxxx", notes="pagi"
ExampleFields ==
  [f \in FieldNames |->
     CASE f = "name" -> <<68, 105, 110, 97>>
       [] f = "service" -> <<65, 67, 32, 67, 108, 101, 97, 110, 105, 110, 103>>
       [] f = "phone" -> <<48, 56, 49, 50, 120, 120, 120, 120>>
       [] f = "notes" -> <<112, 97, 103, 105>>]

FillExample ==
  /\ fields # ExampleFields
  /\ fields' = ExampleFields
  /\ UNCHANGED <<loaderVars, initVars, formVars, navVars, imgVars, opened, sentFields>>

(* ---------------------------- initial states --------------------------- *)
InitPage(containerChoices, formChoices, fieldChoices) ==
  /\ containers \in containerChoices
  /\ contents = [c \in containers |-> Placeholder]
  /\ phase = [i \in Idx |-> "todo"]
  /\ pc = "idle"
  /\ issued = <<>>
  /\ writes = <<>>
  /\ last = [i |-> 0, outcome |-> "none"]
  /\ initCalls = 0
  /\ ran = {}
  /\ initThrew = FALSE
  /\ handlers = {}
  /\ observeLazyDefined = FALSE
  /\ formsPresent \in formChoices
  /\ submitLog = <<>>
  /\ navPlacement \in {"static", "fragment"}
  /\ navbar = "unset"
  /\ scrollListener = FALSE
  /\ scrollY = 0
  /\ scrolledEls = {}
  /\ scrollSeen = FALSE
  /\ lazyImgs = {}
  /\ dataSrc = {}
  /\ observed = {}
  /\ loadedCls = {}
  /\ srcSwapped = {}
  /\ fields \in fieldChoices
  /\ opened = <<>>
  /\ sentFields = [f \in FieldNames |-> Null]

AllFieldsEmpty == {[f \in FieldNames |-> <<>>]}

\* documents lacking at most MaxMissing of the fragment containers
Init ==
  InitPage({S \in SUBSET SectionIds : Cardinality(SectionIds \ S) <= MaxMissing},
           {Forms}, AllFieldsEmpty)

InitForms == InitPage({SectionIds}, SUBSET Forms, AllFieldsEmpty)

InitAllContainers == InitPage({SectionIds}, {Forms}, AllFieldsEmpty)

\* each order-form field is present and empty, or absent from the form
InitOrder == InitPage({SectionIds}, {Forms}, [FieldNames -> {Null, <<>>}])

(* ----------------------------- specifications -------------------------- *)
Loader ==
  \/ DOMContentLoaded
  \/ \E i \in Idx, res \in {"ok", "status", "neterr"} : FetchSettled(i, res)
  \/ \E i \in Idx, res \in {"ok", "readerr"} : TextSettled(i, res)

Next == Loader

Spec == Init /\ [][Next]_vars

NextForms == Loader \/ \E f \in Forms : Submit(f)

SpecForms == InitForms /\ [][NextForms]_vars

NextNav == Loader \/ \E y \in ScrollPositions : Scroll(y)

SpecNav == InitAllContainers /\ [][NextNav]_vars

NextLazy ==
  \/ Loader
  \/ \E img \in Images, hasDataSrc \in BOOLEAN : InsertImage(img, hasDataSrc)
  \/ \E img \in Images, isIntersecting \in BOOLEAN :
       IntersectionCallback(img, isIntersecting)
  \/ ObserveLazy

SpecLazy == InitAllContainers /\ [][NextLazy]_vars

NextOrder ==
  \/ \E field \in FieldNames, c \in Alphabet : TypeChar(field, c)
  \/ FillExample
  \/ OrderSubmit

SpecOrder == InitOrder /\ [][NextOrder]_vars

(* ======================= properties of the loader ====================== *)
InFlight == {i \in Idx : phase[i] \in {"fetching", "reading"}}
Finished == {i \in Idx : phase[i] = "finished"}
Present(i) == sections[i].id \in containers

\* C1: the loader is sequential: at most one fetch is in flight, the fetch
\* for entry i+1 is issued only when loadSection for entry i has finished,
\* fetches are issued in list order, and the container writes are those of
\* the finished entries whose container exists, in list order.
C1_SequentialOrder ==
  /\ Cardinality(InFlight) <= 1
  /\ \A i \in 1..(N - 1) : phase[i + 1] # "todo" => phase[i] = "finished"
  /\ \A k \in 1..Len(issued) : issued[k] = k
  /\ writes = SetToSeq({i \in Finished : Present(i)})

C1_Witness ==
  /\ pc = "done"
  /\ writes = SetToSeq(Idx)
  /\ \E c \in containers : contents[c].kind = "notice"
  /\ \E c \in containers : contents[c].kind = "html"

\* C2: a failed fetch is not propagated: the loader never ends rejected,
\* after a failed entry the next entry is fetched (or, after the last one,
\* initInteractions is invoked), and when the loader is done every entry
\* was fetched, every present container was written and initInteractions
\* was invoked.
C2_FailureDoesNotBlock ==
  /\ pc # "rejected"
  /\ (last.i # 0 /\ last.outcome # "ok") =>
       IF last.i < N THEN phase[last.i + 1] # "todo" ELSE initCalls >= 1
  /\ pc = "done" =>
       /\ issued = SetToSeq(Idx)
       /\ \A i \in Idx : Present(i) => contents[sections[i].id] # Placeholder
       /\ initCalls >= 1

\* every descriptor failed
C2_Witness ==
  /\ pc = "done"
  /\ containers = SectionIds
  /\ \A c \in containers : contents[c].kind = "notice"
  /\ initCalls = 1

\* C3: initInteractions is invoked at most once, only when loadSection has
\* finished for every entry, and exactly once when the loader is done.
C3_InitOnceAfterAll ==
  /\ initCalls <= 1
  /\ initCalls >= 1 => Finished = Idx
  /\ Finished = Idx => initCalls = 1
  /\ pc = "done" <=> initCalls = 1

C3_Witness ==
  /\ initCalls = 1
  /\ \E c \in containers : contents[c].kind = "notice"
  /\ \E c \in containers : contents[c].kind = "html"

\* the setup routines of the page initializer; navbar toggling counts as set
\* up when initNavScroll ran or the navbar listener registered onScroll
RoutineSetUp(r) ==
  \/ r \in ran
  \/ r = "initNavScroll" /\ scrollListener

\* C4: when initInteractions has been invoked, every setup routine of the
\* fixed set has run to completion and initInteractions ended normally.
C4_AllRoutinesRun ==
  initCalls >= 1 =>
    /\ \A k \in 1..Len(Routines) : RoutineSetUp(Routines[k])
    /\ ~initThrew

\* C8: a present container holds its placeholder until its entry finished,
\* then the text of its own resource or the notice naming its own path;
\* after loadSection finished, the container holds the resource text if and
\* only if the response was ok and its body was read, and the notice
\* naming that entry's path in every other case.
C8_ContentMatchesOutcome ==
  /\ \A i \in Idx : Present(i) =>
       LET c == contents[sections[i].id]
       IN /\ c \in {Placeholder, ResourceText(sections[i].path),
                    FailureNotice(sections[i].path)}
          /\ (c = Placeholder) <=> (phase[i] # "finished")
  /\ (last.i # 0 /\ Present(last.i)) =>
       LET c == contents[sections[last.i].id]
       IN /\ (c = ResourceText(sections[last.i].path)) <=> (last.outcome = "ok")
          /\ last.outcome # "ok" => c = FailureNotice(sections[last.i].path)

\* the body of an ok response could not be read
C8_Witness ==
  /\ last.i # 0
  /\ Present(last.i)
  /\ last.outcome = "readerr"
  /\ contents[sections[last.i].id] = FailureNotice(sections[last.i].path)

\* C9: when loadSection finishes for an entry whose container is missing,
\* no container's content changes, nothing is written, the loader is not
\* rejected, and it goes on: the next entry is fetched or, after the last
\* entry, initInteractions is invoked.
C9_MissingContainerSkipped ==
  [][\A i \in Idx :
       (phase[i] # "finished" /\ phase'[i] = "finished" /\ ~Present(i)) =>
         /\ contents' = contents
         /\ writes' = writes
         /\ pc' # "rejected"
         /\ IF i < N THEN phase'[i + 1] = "fetching"
            ELSE initCalls' = initCalls + 1]_vars

\* the last container is missing, its fetch failed, another missing one was
\* passed earlier
C9_Witness ==
  /\ pc = "done"
  /\ Cardinality(SectionIds \ containers) = 2
  /\ ~Present(N)
  /\ last.outcome = "status"
  /\ initCalls = 1

(* ========================= properties of the forms ===================== *)
\* C5: every submit event on #orderForm or #contactForm that occurs after
\* initInteractions was invoked has its default action prevented.
C5_SubmitNeverNavigates ==
  \A k \in 1..Len(submitLog) :
    submitLog[k].afterInit => submitLog[k].defaultPrevented

(* ========================= properties of the navbar ==================== *)
\* C6: once the navbar fragment is loaded, after a scroll event the #topNav
\* element of the document carries class 'scrolled' if and only if
\* window.scrollY is above the threshold.
C6_ScrolledIffAboveThreshold ==
  (scrollSeen /\ TopNavInDocument # "none") =>
    ((TopNavInDocument \in scrolledEls) <=> (scrollY > threshold))

(* ====================== properties of the lazy observer ================ *)
\* C7: every step begins observing only images not marked 'loaded', the
\* mark is never removed, and after every step no image is both marked
\* 'loaded' and observed; so a loaded image is never observed again.
C7_LoadedNeverObserved ==
  [][/\ (observed' \ observed) \cap loadedCls = {}
     /\ loadedCls \subseteq loadedCls'
     /\ loadedCls' \cap observed' = {}]_vars

\* one image was loaded and unobserved, a scan after that observes another
C7_Witness ==
  /\ observeLazyDefined
  /\ loadedCls # {}
  /\ observed # {}
  /\ srcSwapped # {}

(* ====================== properties of the order link =================== *)
IsHex(c) == c \in (48..57) \cup (65..70) \cup (97..102)
Unhex(c) == IF c <= 57 THEN c - 48 ELSE IF c <= 70 THEN c - 55 ELSE c - 87

\* s holds "%XX" at position k
HasByte(s, k) ==
  k + 2 <= Len(s) /\ s[k] = 37 /\ IsHex(s[k + 1]) /\ IsHex(s[k + 2])
ByteAt(s, k) == 16 * Unhex(s[k + 1]) + Unhex(s[k + 2])

\* length of the UTF-8 sequence a lead byte announces, 0 for no lead byte
Utf8Len(b) ==
  IF b < 128 THEN 1
  ELSE IF b \in 192..223 THEN 2
  ELSE IF b \in 224..239 THEN 3
  ELSE IF b \in 240..247 THEN 4
  ELSE 0

\* every '%' of s starts a "%XX"
PercentsOk(s) == \A k \in 1..Len(s) : s[k] = 37 => HasByte(s, k)

\* position k starts a token of s: a plain character or a "%XX"
TokenStart(s, k) == ~(k > 1 /\ s[k - 1] = 37) /\ ~(k > 2 /\ s[k - 2] = 37)

\* the token at k is an escaped UTF-8 continuation byte
IsCont(s, k) == HasByte(s, k) /\ ByteAt(s, k) \in 128..191

\* position k starts a character: a plain one, or the lead byte of an
\* escaped UTF-8 sequence
CharStart(s, k) == TokenStart(s, k) /\ ~IsCont(s, k)

SeqLenAt(s, k) == IF s[k] # 37 THEN 1 ELSE Utf8Len(ByteAt(s, k))

\* the code point of the character that starts at k, -1 for a malformed one
CodePointAt(s, k) ==
  LET n == SeqLenAt(s, k)
      b == ByteAt(s, k)
      cont(j) == ByteAt(s, k + 3 * j) - 128
  IN IF s[k] # 37 THEN s[k]
     ELSE IF n = 0 THEN -1
     ELSE IF n = 1 THEN b
     ELSE IF \E j \in 1..(n - 1) : ~IsCont(s, k + 3 * j) THEN -1
     ELSE
       LET cp == CASE n = 2 -> (b - 192) * 64 + cont(1)
                   [] n = 3 -> (b - 224) * 4096 + cont(1) * 64 + cont(2)
                   [] n = 4 -> (b - 240) * 262144 + cont(1) * 4096
                               + cont(2) * 64 + cont(3)
           valid == CASE n = 2 -> cp >= 128
                      [] n = 3 -> cp >= 2048 /\ cp \notin 55296..57343
                      [] n = 4 -> cp >= 65536 /\ cp <= 1114111
       IN IF valid THEN cp ELSE -1

\* the continuation byte at k belongs to the sequence of a lead byte
ContCovered(s, k) ==
  \E d \in 1..3 :
    /\ k - 3 * d >= 1
    /\ CharStart(s, k - 3 * d)
    /\ s[k - 3 * d] = 37
    /\ SeqLenAt(s, k - 3 * d) > d

\* decodeURIComponent: the text, or ok = FALSE where it throws a URIError
decodeURIComponent(s) ==
  LET IsStart(k) == CharStart(s, k)
      starts == SelectSeq([k \in 1..Len(s) |-> k], IsStart)
      wellFormed ==
        /\ PercentsOk(s)
        /\ \A k \in 1..Len(s) :
             /\ CharStart(s, k) => CodePointAt(s, k) # -1
             /\ (TokenStart(s, k) /\ IsCont(s, k)) => ContCovered(s, k)
  IN IF wellFormed
     THEN [ok |-> TRUE, text |-> [j \in 1..Len(starts) |-> CodePointAt(s, starts[j])]]
     ELSE [ok |-> FALSE, text |-> <<>>]

LinkHead == WaBase \o TextParam

\* the order message of the fields name="Dina", service="AC Cleaning",
\* phone="0812xxxx", notes="pagi"
ExampleMessage ==
  <<
     72, 97, 108, 111, 32, 79, 110, 70, 105, 120, 44, 32, 115, 97, 121, 97,
     32, 42, 68, 105, 110, 97, 42, 32, 105, 110, 103, 105, 110, 32, 109, 101,
     109, 101, 115, 97, 110, 32, 108, 97, 121, 97, 110, 97, 110, 58, 32, 42,
     65, 67, 32, 67, 108, 101, 97, 110, 105, 110, 103, 42, 46, 10, 78, 111,
     87, 65, 58, 32, 48, 56, 49, 50, 120, 120, 120, 120, 10, 67, 97, 116,
     97, 116, 97, 110, 58, 32, 112, 97, 103, 105 >>

\* the fixed order template populated with the four values, a missing field
\* counting as the empty string
Populated(data) ==
  LET v(f) == IF data[f] = Null THEN <<>> ELSE data[f]
  IN TplHead \o v("name") \o TplService \o v("service")
       \o TplPhone \o v("phone") \o TplNotes \o v("notes")

\* C10: the link the order handler opens is the deep-link prefix, "?text="
\* and a query text that percent-decodes to the order template populated
\* with the four field values the handler read; for the fields Dina,
\* AC Cleaning, 0812xxxx, pagi the decoded text is the documented message.
C10_OrderLinkRoundTrip ==
  opened # <<>> =>
    /\ Len(opened) >= Len(LinkHead)
    /\ SubSeq(opened, 1, Len(LinkHead)) = LinkHead
    /\ LET query == SubSeq(opened, Len(LinkHead) + 1, Len(opened))
           dec == decodeURIComponent(query)
       IN /\ dec.ok
          /\ dec.text = Populated(sentFields)
          /\ sentFields = ExampleFields => dec.text = ExampleMessage
          /\ \A k \in 1..Len(query) : query[k] \in Unreserved \cup {37}

\* a link was opened for fields holding a '%' and a multi-byte character,
\* one field being absent from the form
C10_Witness ==
  /\ opened # <<>>
  /\ \E f \in FieldNames : sentFields[f] = Null
  /\ \E f \in FieldNames : sentFields[f] # Null /\ sentFields[f] # <<>>
       /\ \E k \in 1..Len(sentFields[f]) : sentFields[f][k] = 37
  /\ \E f \in FieldNames : sentFields[f] # Null /\ sentFields[f] # <<>>
       /\ \E k \in 1..Len(sentFields[f]) : sentFields[f][k] > 127
====
